---- MODULE Spec2Model ----
(***************************************************************************)
(* Model of AnimeFolderWizard.py: the folder walk controller (Tk callbacks *)
(* running on the interactive thread), the background search workers       *)
(* (fetch_candidates, one thread per visited folder) and the directory     *)
(* that is listed and renamed in.                                          *)
(*                                                                         *)
(* Strings are sequences of one-character strings.  A Python value that    *)
(* may be None is a sequence of length 0 (None) or 1 (the value).          *)
(*                                                                         *)
(* The remote service is the environment: whatever query a thread sends,   *)
(* search_anime may return any of Responses.  The disk changes only by the *)
(* program's own os.rename.  A Tk callback runs as one step; a thread runs *)
(* fetch_candidates in four steps (the search with its sort, line 174,     *)
(* line 175, line 176), so that callbacks and other threads run between    *)
(* its writes.  Variables visited, renameCalls, renameDone, cc_owner,      *)
(* shown_owner, step_result and the stale mark of a thread record what has *)
(* happened; no action reads them.                                         *)
(***************************************************************************)
EXTENDS Bags, FiniteSets, Integers, Sequences, TLC

(***************************************************************************)
(* Bounds of the model.                                                    *)
(***************************************************************************)
\* how many search threads are started in a run
MaxSearches == 2
\* how many times os.rename may raise for one folder
MaxRenameFails == 1

(***************************************************************************)
(* Python values.                                                          *)
(***************************************************************************)
Null == <<>>
Some(v) == <<v>>
Val(o) == o[1]

\* str(None), as an f-string renders it
NoneText == <<"N", "o", "n", "e">>

\* truthiness of an optional string: None and "" are false
TruthyStr(o) == o # Null /\ Val(o) # <<>>
\* truthiness of an optional integer: None and 0 are false
TruthyInt(o) == o # Null /\ Val(o) # 0

\* a or b, on optional strings
PyOr(a, b) == IF TruthyStr(a) THEN a ELSE b

Digit(d) == CASE d = 0 -> "0" [] d = 1 -> "1" [] d = 2 -> "2" [] d = 3 -> "3"
              [] d = 4 -> "4" [] d = 5 -> "5" [] d = 6 -> "6" [] d = 7 -> "7"
              [] d = 8 -> "8" [] d = 9 -> "9"

RECURSIVE IntText(_)
\* str(n) for a natural number n
IntText(n) == IF n < 10 THEN <<Digit(n)>>
              ELSE IntText(n \div 10) \o <<Digit(n % 10)>>

\* the characters str.strip() removes (the vertical tab has no TLA+ escape)
Whitespace == {" ", "\t", "\n", "\r", "\f"}

RECURSIVE LStrip(_)
LStrip(s) == IF s # <<>> /\ Head(s) \in Whitespace THEN LStrip(Tail(s)) ELSE s

RECURSIVE RStrip(_)
RStrip(s) == IF s # <<>> /\ s[Len(s)] \in Whitespace
             THEN RStrip(SubSeq(s, 1, Len(s) - 1)) ELSE s

Strip(s) == RStrip(LStrip(s))

\* s.replace(c, '')
RECURSIVE RemoveChar(_, _)
RemoveChar(s, c) == IF s = <<>> THEN <<>>
                    ELSE IF Head(s) = c THEN RemoveChar(Tail(s), c)
                    ELSE <<Head(s)>> \o RemoveChar(Tail(s), c)

invalid == <<"<", ">", ":", "\"", "/", "\\", "|", "?", "*">>

RECURSIVE RemoveAll(_, _)
RemoveAll(s, cs) == IF cs = <<>> THEN s
                    ELSE RemoveAll(RemoveChar(s, Head(cs)), Tail(cs))

\* variant: the strip of line 44 is missing
sanitize_filename_unstripped(name) == RemoveAll(name, invalid)

sanitize_filename(name) == Strip(RemoveAll(name, invalid))

(***************************************************************************)
(* Candidate records, as the AniList response carries them.                *)
(***************************************************************************)
Anime(i, t, sd) == [id |-> i, title |-> t, startDate |-> sd]
Title(e, r) == Some([english |-> e, romaji |-> r])
StartDate(y) == Some([year |-> y])

\* "a" / "b", 1: renamed to "a (1)"
A1 == Anime(1, Title(Some(<<"a">>), Some(<<"b">>)), StartDate(Some(1)))
\* no English title, romaji "b:", no year: renamed to "b"
A2 == Anime(2, Title(Null, Some(<<"b", ":">>)), StartDate(Null))
\* English title "?" sanitizes to the empty name
A3 == Anime(3, Title(Some(<<"?">>), Some(<<"a">>)), StartDate(Null))
\* a record whose startDate is null
A4 == Anime(4, Title(Some(<<"a">>), Some(<<"a">>)), Null)
\* a record whose title is null
A5 == Anime(5, Null, StartDate(Null))

\* what search_anime may return: nothing (also every failed request), or a
\* page of records
Responses == {<<>>, <<A2, A1>>, <<A3, A5>>, <<A4>>}

\* candidates[:5]
TopN == 5

\* the sort key of line 172; it raises when startDate is None
KeyRaises(anime) == anime.startDate = Null
YearKey(anime) == LET y == Val(anime.startDate).year
                  IN IF TruthyInt(y) THEN Val(y) ELSE 0

RECURSIVE InsertDescBeforeEquals(_, _)
\* variant: a goes before the elements of its own key (not stable)
InsertDescBeforeEquals(s, a) ==
    IF s = <<>> THEN <<a>>
    ELSE IF YearKey(Head(s)) > YearKey(a)
         THEN <<Head(s)>> \o InsertDescBeforeEquals(Tail(s), a)
         ELSE <<a>> \o s

RECURSIVE InsertDesc(_, _)
\* a into the descending list s, behind every element whose key is >= a's
InsertDesc(s, a) == IF s = <<>> THEN <<a>>
                    ELSE IF YearKey(Head(s)) >= YearKey(a)
                         THEN <<Head(s)>> \o InsertDesc(Tail(s), a)
                         ELSE <<a>> \o s

RECURSIVE SortedDesc(_)
\* sorted(candidates, key=year or 0, reverse=True): stable
SortedDesc(s) == IF s = <<>> THEN <<>>
                 ELSE InsertDesc(SortedDesc(SubSeq(s, 1, Len(s) - 1)), s[Len(s)])

Truncate(s) == SubSeq(s, 1, IF Len(s) < TopN THEN Len(s) ELSE TopN)

\* lines 171-173: [raised |-> TRUE] when the sort key raises
PostProcess(cands) ==
    IF cands = <<>> THEN [raised |-> FALSE, list |-> <<>>]
    ELSE IF \E i \in 1..Len(cands) : KeyRaises(cands[i])
         THEN [raised |-> TRUE, list |-> <<>>]
         ELSE [raised |-> FALSE, list |-> Truncate(SortedDesc(cands))]

\* variant: the romaji title is preferred to the English one
DisplayTextRomajiFirst(anime) ==
    IF anime.title = Null THEN [raised |-> TRUE, text |-> Null]
    ELSE LET title == PyOr(Val(anime.title).romaji, Val(anime.title).english)
             year == Val(anime.startDate).year
         IN IF TruthyInt(year)
            THEN [raised |-> FALSE,
                  text |-> Some((IF title = Null THEN NoneText ELSE Val(title))
                                \o <<" ", "(">> \o IntText(Val(year)) \o <<")">>)]
            ELSE [raised |-> FALSE, text |-> title]

\* f"{title} ({year})" if year else title  (lines 189-191 and 236-238);
\* [raised |-> TRUE] when anime["title"] is None
DisplayText(anime) ==
    IF anime.title = Null THEN [raised |-> TRUE, text |-> Null]
    ELSE LET title == PyOr(Val(anime.title).english, Val(anime.title).romaji)
             year == Val(anime.startDate).year
         IN IF TruthyInt(year)
            THEN [raised |-> FALSE,
                  text |-> Some((IF title = Null THEN NoneText ELSE Val(title))
                                \o <<" ", "(">> \o IntText(Val(year)) \o <<")">>)]
            ELSE [raised |-> FALSE, text |-> title]

(***************************************************************************)
(* The filesystem: for each directory the user can choose, its entries.    *)
(* An entry keeps an identity (id) so that replacing an entry shows; the   *)
(* directory lists its entries in the order of their ids.                  *)
(***************************************************************************)
Dirs == {"d1", "d2"}

Entry(n, dir, i) == [name |-> n, isdir |-> dir, id |-> i]

\* d1 holds folders "b" and "x" and a file "f"; d2 holds one file only
InitFS == [d \in Dirs |->
            IF d = "d1"
            THEN {Entry(<<"b">>, TRUE, 1), Entry(<<"x">>, TRUE, 2),
                  Entry(<<"f">>, FALSE, 3)}
            ELSE {Entry(<<"f">>, FALSE, 4)}]

\* os.path.join(directory, name), as the pair it denotes
Join(d, n) == <<d, n>>

\* variant: the existence test that never finds anything
PathExistsNever(f, path) == FALSE

\* os.path.exists(path); joining the empty name gives the directory itself
PathExists(f, path) == path[2] = <<>> \/ \E e \in f[path[1]] : e.name = path[2]

\* os.path.isdir(path)
PathIsDir(f, path) == \E e \in f[path[1]] : e.name = path[2] /\ e.isdir

\* os.rename(old, new) can succeed only if old names an entry
HasEntry(f, path) == \E e \in f[path[1]] : e.name = path[2]

\* the effect of a successful os.rename(old, new): the entry at old gets the
\* new name in the new directory, and replaces whatever was there (what
\* POSIX does to an empty directory at new)
\* variant: the source entry stays where it was
RenamedKeepsOld(f, old, new) ==
    LET src == CHOOSE e \in f[old[1]] : e.name = old[2]
    IN [f EXCEPT ![new[1]] =
            {e \in @ : e.name # new[2]} \cup {[src EXCEPT !.name = new[2]]}]

Renamed(f, old, new) ==
    LET src == CHOOSE e \in f[old[1]] : e.name = old[2]
        removed == [f EXCEPT ![old[1]] = @ \ {src}]
    IN [removed EXCEPT ![new[1]] =
            {e \in @ : e.name # new[2]} \cup {[src EXCEPT !.name = new[2]]}]

RECURSIVE ListNames(_)
\* the names of the entries, in the order of their ids
ListNames(entries) ==
    IF entries = {} THEN <<>>
    ELSE LET first == CHOOSE e \in entries : \A o \in entries : e.id <= o.id
         IN <<first.name>> \o ListNames(entries \ {first})

\* os.listdir(d)
listdir(f, d) == ListNames(f[d])

\* a dict with one more (or one replaced) key
Put(dict, k, v) == [x \in DOMAIN dict \cup {k} |-> IF x = k THEN v ELSE dict[x]]

\* dict.get(k, default)
Get(dict, k, default) == IF k \in DOMAIN dict THEN dict[k] ELSE default

EmptyDict == [x \in {} |-> <<>>]

(***************************************************************************)
(* State.                                                                  *)
(***************************************************************************)
VARIABLES
    directory,            \* self.directory ("" before the first choice)
    folders,              \* self.folders
    folder_paths,         \* self.folder_paths
    folder_candidates,    \* self.folder_candidates
    selected_candidates,  \* self.selected_candidates
    current_index,        \* self.current_index
    current_candidates,   \* self.current_candidates
    skip_btn,             \* state of the Skip Folder button
    folder_label,         \* text of self.folder_label
    frame,                \* inner_candidates_frame: its label and its buttons
    dialog,               \* the message box that is open ("" when none is)
    fs,                   \* the directories on disk
    threads,              \* bag of live fetch_candidates threads; each notes
                          \* whether the step that started it is over (stale)
    pending,              \* number of show_candidates callbacks posted by after(0, ..)
    started,              \* how many search threads have been started
    visited,              \* folders made current since the last listing
    renameCalls,          \* per listed folder: how often os.rename was called
    renameDone,           \* per listed folder: how often os.rename succeeded
    cc_owner,             \* folder whose search wrote current_candidates
    shown_owner,          \* folder whose search result the frame displays
    step_result           \* what the search of the current step returned

vars == <<directory, folders, folder_paths, folder_candidates,
          selected_candidates, current_index, current_candidates, skip_btn,
          folder_label, frame, dialog, fs, threads, pending, started, visited,
          renameCalls, renameDone, cc_owner, shown_owner, step_result>>

program == <<directory, folders, folder_paths, folder_candidates,
             selected_candidates, current_index, current_candidates>>
widgets == <<skip_btn, folder_label, frame>>
history == <<visited, renameCalls, renameDone, step_result>>

\* clear_candidates leaves the frame without children
EmptyFrame == [label |-> "", buttons |-> <<>>]

Label(t, n) == [text |-> t, name |-> n]

\* the folder the controller is at, as None once the list is exhausted
CurrentFolder == IF current_index < Len(folders)
                 THEN Some(folders[current_index + 1]) ELSE Null

Init ==
    /\ directory = ""
    /\ folders = <<>>
    /\ folder_paths = EmptyDict
    /\ folder_candidates = EmptyDict
    /\ selected_candidates = EmptyDict
    /\ current_index = 0
    /\ current_candidates = <<>>
    /\ skip_btn = "disabled"
    /\ folder_label = Label("Folder:", Null)
    /\ frame = EmptyFrame
    /\ dialog = ""
    /\ fs = InitFS
    /\ threads = EmptyBag
    /\ pending = 0
    /\ started = 0
    /\ visited = <<>>
    /\ renameCalls = <<>>
    /\ renameDone = <<>>
    /\ cc_owner = Null
    /\ shown_owner = Null
    /\ step_result = Null

(***************************************************************************)
(* The interactive thread: Tk callbacks.  A message box is modal: while    *)
(* one is open the user can only dismiss it, but the event loop still runs *)
(* the callbacks posted with after().                                      *)
(***************************************************************************)
Thread(name, pc, cands, old) ==
    [folder |-> name, pc |-> pc, candidates |-> cands, stale |-> old]

\* the live threads, each marked as started by a step that is over
Retired(th) ==
    LET mark(t) == [t EXCEPT !.stale = TRUE]
        marked == {mark(t) : t \in BagToSet(th)}
    IN [m \in marked |->
          CopiesIn(m, th) + CopiesIn([m EXCEPT !.stale = FALSE], th)]

\* variant: the thread is started twice
StartThreadTwice(th, folder_name) ==
    th (+) SetToBag({Thread(folder_name, "search", <<>>, FALSE)})
       (+) SetToBag({Thread(folder_name, "search", <<>>, FALSE)})

\* threading.Thread(target=self.fetch_candidates, args=(folder_name,)).start()
StartThread(th, folder_name) ==
    th (+) SetToBag({Thread(folder_name, "search", <<>>, FALSE)})

\* show_current_folder, for the index idx and the list fl just assigned;
\* vis is the history of folders made current
show_current_folder(idx, fl, vis) ==
    /\ frame' = EmptyFrame
    /\ shown_owner' = Null
    /\ step_result' = Null
    /\ IF idx >= Len(fl)
       THEN /\ folder_label' = Label("All folders processed.", Null)
            /\ skip_btn' = "disabled"
            /\ threads' = Retired(threads)
            /\ UNCHANGED started
            /\ visited' = vis
       ELSE /\ started < MaxSearches
            /\ started' = started + 1
            /\ folder_label' = Label("Folder: ", Some(fl[idx + 1]))
            /\ skip_btn' = "normal"
            /\ threads' = StartThread(Retired(threads), fl[idx + 1])
            /\ visited' = Append(vis, fl[idx + 1])

\* variant: the index jumps over a folder
NextIndexSkipsOne(i) == i + 2

\* variant: the index is not advanced
NextIndexStays(i) == i

\* self.current_index += 1
NextIndex(i) == i + 1

next_folder ==
    /\ current_index' = NextIndex(current_index)
    /\ show_current_folder(NextIndex(current_index), folders, visited)

\* the items of os.listdir(d) that os.path.isdir accepts, in listing order
Subfolders(d) == SelectSeq(listdir(fs, d), LAMBDA n : PathIsDir(fs, Join(d, n)))

\* load_folders found nothing: it returns after the notice
load_none ==
    /\ dialog' = "No Folders"
    /\ visited' = <<>>
    /\ step_result' = Null
    /\ threads' = Retired(threads)
    /\ UNCHANGED <<current_index, selected_candidates, folder_candidates,
                   widgets, started, shown_owner>>

\* load_folders found subfolders: it resets the walk and shows the first
load_some(fl) ==
    /\ current_index' = 0
    /\ selected_candidates' = EmptyDict
    /\ folder_candidates' = EmptyDict
    /\ show_current_folder(0, fl, <<>>)
    /\ UNCHANGED dialog

load_folders(d) ==
    /\ folders' = Subfolders(d)
    /\ folder_paths' = [n \in {Subfolders(d)[i] : i \in 1..Len(Subfolders(d))}
                          |-> Join(d, n)]
    /\ renameCalls' = [i \in 1..Len(Subfolders(d)) |-> 0]
    /\ renameDone' = [i \in 1..Len(Subfolders(d)) |-> 0]
    /\ IF Subfolders(d) = <<>> THEN load_none ELSE load_some(Subfolders(d))

select_directory(d) ==
    /\ dialog = ""
    /\ directory' = d
    /\ load_folders(d)
    /\ UNCHANGED <<current_candidates, fs, pending, cc_owner>>

\* the user closes the message box
dismiss_dialog ==
    /\ dialog # ""
    /\ dialog' = ""
    /\ UNCHANGED <<program, widgets, fs, threads, pending, started, history,
                   cc_owner, shown_owner>>

\* a callback that raised: Tk reports the traceback and nothing else changes
callback_raised ==
    UNCHANGED <<directory, folders, folder_paths, folder_candidates,
                current_index, current_candidates, widgets, dialog, fs,
                threads, pending, started, history, cc_owner, shown_owner>>

skip_folder ==
    /\ dialog = ""
    /\ skip_btn = "normal"
    /\ IF current_index >= Len(folders)
       THEN callback_raised /\ UNCHANGED selected_candidates
       ELSE /\ next_folder
            /\ UNCHANGED <<directory, folders, folder_paths, folder_candidates,
                           selected_candidates, current_candidates, dialog, fs,
                           pending, renameCalls, renameDone, cc_owner>>

\* variant: the range check of line 232 is missing, candidates[index] raises
get_new_name_unchecked(folder, sel, fc) ==
    LET candidate_index == Get(sel, folder, Null)
        candidates == Get(fc, folder, <<>>)
    IN IF candidate_index = Null \/ Val(candidate_index) >= Len(candidates)
       THEN [raised |-> TRUE, name |-> Null]
       ELSE LET shown == DisplayText(candidates[Val(candidate_index) + 1])
            IN IF shown.raised \/ shown.text = Null
               THEN [raised |-> TRUE, name |-> Null]
               ELSE [raised |-> FALSE,
                     name |-> Some(sanitize_filename(Val(shown.text)))]

get_new_name(folder, sel, fc) ==
    LET candidate_index == Get(sel, folder, Null)
        candidates == Get(fc, folder, <<>>)
    IN IF candidate_index = Null \/ Val(candidate_index) >= Len(candidates)
       THEN [raised |-> FALSE, name |-> Null]
       ELSE LET shown == DisplayText(candidates[Val(candidate_index) + 1])
            IN \* None["english"] and None.replace raise
               IF shown.raised \/ shown.text = Null
               THEN [raised |-> TRUE, name |-> Null]
               ELSE [raised |-> FALSE,
                     name |-> Some(sanitize_filename(Val(shown.text)))]

\* variant: the return after the error dialog is missing
pick_failed_no_return(message) ==
    /\ dialog' = message
    /\ next_folder
    /\ UNCHANGED <<directory, folders, folder_paths, folder_candidates,
                   current_candidates, fs, pending, cc_owner>>

\* variant: a failed pick ends the walk
pick_failed_disables_skip(message) ==
    /\ dialog' = message
    /\ skip_btn' = "disabled"
    /\ UNCHANGED <<directory, folders, folder_paths, folder_candidates,
                   current_index, current_candidates, folder_label, frame, fs,
                   threads, pending, started, visited, cc_owner, shown_owner,
                   step_result>>

\* candidate_selected returns after an error dialog
pick_failed(message) ==
    /\ dialog' = message
    /\ UNCHANGED <<directory, folders, folder_paths, folder_candidates,
                   current_index, current_candidates, widgets, fs, threads,
                   pending, started, visited, cc_owner, shown_owner,
                   step_result>>

\* lines 209-215: os.rename(old_path, new_path) for the folder at position i
\* of the list, and what follows it
os_rename(i, old_path, new_path) ==
    /\ renameCalls' = [renameCalls EXCEPT ![i] = @ + 1]
    /\ \/ /\ HasEntry(fs, old_path)
          /\ fs' = Renamed(fs, old_path, new_path)
          /\ renameDone' = [renameDone EXCEPT ![i] = @ + 1]
          /\ next_folder
          /\ UNCHANGED <<directory, folders, folder_paths, folder_candidates,
                         current_candidates, dialog, pending, cc_owner>>
       \/ /\ renameCalls[i] - renameDone[i] < MaxRenameFails
          /\ pick_failed("Error: renaming folder")
          /\ UNCHANGED renameDone

candidate_selected(index) ==
    /\ dialog = ""
    /\ index \in 0..(Len(frame.buttons) - 1)
    /\ IF current_index >= Len(folders)
       THEN callback_raised /\ UNCHANGED selected_candidates
       ELSE LET folder_name == folders[current_index + 1]
                sel == Put(selected_candidates, folder_name, Some(index))
                got == get_new_name(folder_name, sel, folder_candidates)
                old_path == folder_paths[folder_name]
                new_path == Join(directory, Val(got.name))
            IN /\ selected_candidates' = sel
               /\ IF got.raised
                  THEN callback_raised
                  ELSE IF ~TruthyStr(got.name)
                  THEN pick_failed("Error: could not determine new name")
                       /\ UNCHANGED <<renameCalls, renameDone>>
                  ELSE IF PathExists(fs, new_path)
                  THEN pick_failed("Conflict")
                       /\ UNCHANGED <<renameCalls, renameDone>>
                  ELSE os_rename(current_index + 1, old_path, new_path)

\* the buttons show_candidates packs before a record without title raises
RECURSIVE ButtonTexts(_)
ButtonTexts(cands) ==
    IF cands = <<>> \/ DisplayText(Head(cands)).raised THEN <<>>
    ELSE <<DisplayText(Head(cands)).text>> \o ButtonTexts(Tail(cands))

\* the frame show_candidates builds when line 181 reads `tested` and the
\* loop of line 188 reads `listed`
Shown(tested, listed) ==
    IF tested = <<>>
    THEN [label |-> "No candidates found.", buttons |-> <<>>]
    ELSE [label |-> "Select the matching anime:", buttons |-> ButtonTexts(listed)]

\* show_candidates, run by the event loop for one posted callback
show_candidates ==
    /\ pending > 0
    /\ pending' = pending - 1
    /\ frame' = Shown(current_candidates, current_candidates)
    /\ shown_owner' = cc_owner
    /\ UNCHANGED <<program, skip_btn, folder_label, dialog, fs, threads,
                   started, history, cc_owner>>

(***************************************************************************)
(* A background thread running fetch_candidates(folder_name).              *)
(***************************************************************************)
Replace(th, old, new) == (th (-) SetToBag({old})) (+) SetToBag({new})

\* lines 160-173: the request and the sort; the thread dies if the sort raises
fetch_search(t) ==
    /\ t.pc = "search"
    /\ \E response \in Responses :
        LET done == PostProcess(response) IN
        IF done.raised
        THEN /\ threads' = threads (-) SetToBag({t})
             /\ UNCHANGED step_result
        ELSE /\ threads' = Replace(threads, t,
                                   Thread(t.folder, "174", done.list, t.stale))
             /\ step_result' = IF t.stale THEN step_result ELSE Some(done.list)
    /\ UNCHANGED <<program, widgets, dialog, fs, pending, started, visited,
                   renameCalls, renameDone, cc_owner, shown_owner>>

\* line 174: self.current_candidates = candidates
fetch_store_current(t) ==
    /\ t.pc = "174"
    /\ current_candidates' = t.candidates
    /\ cc_owner' = Some(t.folder)
    /\ threads' = Replace(threads, t, Thread(t.folder, "175", t.candidates, t.stale))
    /\ UNCHANGED <<directory, folders, folder_paths, folder_candidates,
                   selected_candidates, current_index, widgets, dialog, fs,
                   pending, started, history, shown_owner>>

\* line 174 of thread t runs while show_candidates is between its test of
\* line 181, which saw a list that is not empty, and its loop of line 188
show_candidates_interleaved(t) ==
    /\ pending > 0
    /\ current_candidates # <<>>
    /\ t.pc = "174"
    /\ pending' = pending - 1
    /\ current_candidates' = t.candidates
    /\ cc_owner' = Some(t.folder)
    /\ threads' = Replace(threads, t, Thread(t.folder, "175", t.candidates, t.stale))
    /\ frame' = Shown(current_candidates, t.candidates)
    /\ shown_owner' = Some(t.folder)
    /\ UNCHANGED <<directory, folders, folder_paths, folder_candidates,
                   selected_candidates, current_index, skip_btn, folder_label,
                   dialog, fs, started, history>>

\* line 175: self.folder_candidates[folder_name] = candidates
fetch_store_folder(t) ==
    /\ t.pc = "175"
    /\ folder_candidates' = Put(folder_candidates, t.folder, t.candidates)
    /\ threads' = Replace(threads, t, Thread(t.folder, "176", t.candidates, t.stale))
    /\ UNCHANGED <<directory, folders, folder_paths, selected_candidates,
                   current_index, current_candidates, widgets, dialog, fs,
                   pending, started, history, cc_owner, shown_owner>>

\* line 176: self.after(0, self.show_candidates); the thread ends
fetch_post(t) ==
    /\ t.pc = "176"
    /\ pending' = pending + 1
    /\ threads' = threads (-) SetToBag({t})
    /\ UNCHANGED <<program, widgets, dialog, fs, started, history, cc_owner,
                   shown_owner>>

fetch_candidates_search == \E t \in BagToSet(threads) : fetch_search(t)
fetch_candidates_174 == \E t \in BagToSet(threads) : fetch_store_current(t)
fetch_candidates_175 == \E t \in BagToSet(threads) : fetch_store_folder(t)
fetch_candidates_176 == \E t \in BagToSet(threads) : fetch_post(t)
show_candidates_during_174 ==
    \E t \in BagToSet(threads) : show_candidates_interleaved(t)

\* a step of the interactive thread
UIStep ==
    \/ \E d \in Dirs : select_directory(d)
    \/ dismiss_dialog
    \/ skip_folder
    \/ \E index \in 0..(TopN - 1) : candidate_selected(index)
    \/ show_candidates

\* a step of a background thread
WorkerStep ==
    \/ fetch_candidates_search
    \/ fetch_candidates_174
    \/ fetch_candidates_175
    \/ fetch_candidates_176

Next ==
    \/ \E d \in Dirs : select_directory(d)
    \/ dismiss_dialog
    \/ skip_folder
    \/ \E index \in 0..(TopN - 1) : candidate_selected(index)
    \/ show_candidates
    \/ fetch_candidates_search
    \/ fetch_candidates_174
    \/ fetch_candidates_175
    \/ fetch_candidates_176
    \/ show_candidates_during_174

Spec == Init /\ [][Next]_vars

(***************************************************************************)
(* The walk under a user who keeps acting.  A directory is chosen only     *)
(* while the threads still to be started suffice for a walk over all its   *)
(* folders, so that no step of the walk waits for MaxSearches.  A message  *)
(* box that is open gets closed, and Skip Folder is clicked if it stays    *)
(* clickable.                                                              *)
(***************************************************************************)
select_directory_for_walk(d) ==
    /\ started + Len(Subfolders(d)) <= MaxSearches
    /\ select_directory(d)

NextWalk ==
    \/ \E d \in Dirs : select_directory_for_walk(d)
    \/ dismiss_dialog
    \/ skip_folder
    \/ \E index \in 0..(TopN - 1) : candidate_selected(index)
    \/ show_candidates
    \/ fetch_candidates_search
    \/ fetch_candidates_174
    \/ fetch_candidates_175
    \/ fetch_candidates_176
    \/ show_candidates_during_174

WalkSpec ==
    /\ Init
    /\ [][NextWalk]_vars
    /\ WF_vars(dismiss_dialog)
    /\ WF_vars(skip_folder)

(***************************************************************************)
(* Properties.                                                             *)
(***************************************************************************)
Min(a, b) == IF a < b THEN a ELSE b

\* the disk has an entry of that name in that directory
OnDisk(d, n) == \E e \in fs[d] : e.name = n

\* what get_new_name gives candidate_selected(index) in the current state
PickedName(index) ==
    get_new_name(folders[current_index + 1],
                 Put(selected_candidates, folders[current_index + 1], Some(index)),
                 folder_candidates)

\* candidate_selected(index) computes a destination, and it is on disk
DestinationOnDisk(index) ==
    /\ current_index < Len(folders)
    /\ ~PickedName(index).raised
    /\ TruthyStr(PickedName(index).name)
    /\ OnDisk(directory, Val(PickedName(index).name))

\* C1: a result of the search launched for folder F is never applied while
\* the current folder is another folder G: it is not stored as the current
\* candidate list, and it is not displayed as pick options for G.
C1_StaleResultNeverApplied ==
    /\ [][((cc_owner' # cc_owner \/ current_candidates' # current_candidates)
             /\ CurrentFolder' # Null)
            => cc_owner' = CurrentFolder']_vars
    /\ [](frame.buttons # <<>> /\ CurrentFolder # Null
             => shown_owner = CurrentFolder)

\* C2: a pick whose destination already exists fails with the Conflict
\* dialog, calls os.rename not at all and leaves the disk as it is.
C2_NoOverwrite ==
    [][\A index \in 0..(TopN - 1) :
          (candidate_selected(index) /\ DestinationOnDisk(index))
             => /\ fs' = fs
                /\ dialog' = "Conflict"
                /\ renameCalls' = renameCalls]_vars

\* a pick has met an existing destination after another folder was renamed
C2_Witness ==
    /\ dialog = "Conflict"
    /\ \E i \in DOMAIN renameDone : renameDone[i] = 1
    /\ fs # InitFS

\* C3: the folders made current since the listing are the first folders of
\* the list, in its order and each once; the index is 0 at the first and
\* moves only by +1, on a skip or on a rename that succeeded, up to the
\* length of the list.
C3_VisitsInOrder ==
    /\ [](/\ visited = SubSeq(folders, 1, Len(visited))
          /\ folders # <<>> =>
                /\ current_index <= Len(folders)
                /\ Len(visited) = Min(current_index + 1, Len(folders)))
    /\ [][current_index' # current_index =>
            \/ current_index' = 0 /\ visited' = <<folders'[1]>>
            \/ /\ current_index < Len(folders)
               /\ current_index' = current_index + 1
               /\ folders' = folders
               /\ (skip_folder \/ renameDone' # renameDone)]_vars

\* a walk over two folders has ended, one renamed and one skipped
C3_Witness ==
    /\ Len(folders) = 2
    /\ current_index = 2
    /\ visited = folders
    /\ \E i, j \in 1..2 : renameDone[i] = 1 /\ renameDone[j] = 0

\* the searches in flight that the current step started
InFlightOfStep == {t \in BagToSet(threads) : ~t.stale}

\* C4 as stated: at most one search thread is alive, whatever the user does.
C4_OneSearchInFlight == BagCardinality(threads) <= 1

\* C4, amended: at most one search started by the current step is in flight,
\* it is the search for the current folder, and every other search in flight
\* was started by an earlier step.
C4_OneSearchPerStep ==
    /\ BagCardinality([t \in InFlightOfStep |-> threads[t]]) <= 1
    /\ \A t \in InFlightOfStep : Some(t.folder) = CurrentFolder
    /\ BagCardinality(threads) <= started

\* the search of an earlier step and the search of the current step are
\* both in flight
C4_Witness ==
    /\ BagCardinality(threads) = 2
    /\ Cardinality(InFlightOfStep) = 1
    /\ \E t \in BagToSet(threads) : t.stale

\* C5: a background thread writes none of the folder-to-candidates map, the
\* current candidate list and the selection map.
C5_OnlyUIThreadWrites ==
    [][WorkerStep => UNCHANGED <<folder_candidates, current_candidates,
                                 selected_candidates>>]_vars

\* candidate_selected(index) fails on an existing destination or on os.rename
FailedPick(index) ==
    /\ candidate_selected(index)
    /\ current_index < Len(folders)
    /\ \/ DestinationOnDisk(index)
       \/ renameCalls' # renameCalls /\ renameDone' = renameDone

\* C6: a pick that fails on an existing destination or on os.rename leaves
\* the index, the folder list, the threads, the displayed candidates and the
\* disk as they are and opens an error dialog; the index grows only on a
\* skip or on a rename that succeeded.
C6_FailedPickStays ==
    /\ [][\A index \in 0..(TopN - 1) : FailedPick(index) =>
            /\ UNCHANGED <<current_index, folders, folder_paths, threads,
                           started, widgets, fs, current_candidates,
                           folder_candidates>>
            /\ dialog' \in {"Conflict", "Error: renaming folder"}]_vars
    /\ [][current_index' > current_index =>
            skip_folder \/ renameDone' # renameDone]_vars

\* os.rename has raised and the same candidates are still offered
C6_Witness ==
    /\ dialog = "Error: renaming folder"
    /\ current_index < Len(folders)
    /\ renameCalls[current_index + 1] = 1
    /\ frame.buttons # <<>>

\* C7 as stated: os.rename is called at most once for each listed folder,
\* and only when the destination does not exist.
C7_AtMostOneAttempt ==
    /\ [](\A i \in DOMAIN renameCalls : renameCalls[i] <= 1)
    /\ [][\A index \in 0..(TopN - 1) :
            candidate_selected(index) /\ renameCalls' # renameCalls
               => ~DestinationOnDisk(index)]_vars

\* C7, amended: os.rename succeeds at most once for each listed folder and is
\* not called for a folder after it has succeeded for it (it may be called
\* again after it raised), and it is called only when the destination does
\* not exist.
C7_AtMostOneRename ==
    /\ [](\A i \in DOMAIN renameDone : renameDone[i] <= 1)
    /\ [][\A index \in 0..(TopN - 1) :
            candidate_selected(index) /\ renameCalls' # renameCalls
               => /\ ~DestinationOnDisk(index)
                  /\ renameDone[current_index + 1] = 0]_vars

\* a folder was renamed at the second call of os.rename
C7_Witness == \E i \in DOMAIN renameCalls : renameCalls[i] = 2 /\ renameDone[i] = 1

\* C8: once a directory without subfolders is selected, the user can neither
\* skip nor pick.
C8_EmptyDirectoryIsDone ==
    (directory # "" /\ folders = <<>>)
        => (skip_btn = "disabled" /\ frame.buttons = <<>>)

\* C9, for a listing that is not empty: the index stays within the list, and
\* when it has reached the end of the list the user can neither skip nor
\* pick.
C9_DoneIsFinal ==
    folders # <<>> =>
        /\ current_index <= Len(folders)
        /\ current_index = Len(folders)
              => (skip_btn = "disabled" /\ frame.buttons = <<>>)

\* C10: when the search of the current step has returned no candidates, no
\* pick is offered and the disk does not change.
C10_NoCandidatesOnlySkip ==
    /\ [](step_result = Some(<<>>) => frame.buttons = <<>>)
    /\ [][step_result = Some(<<>>) => fs' = fs]_vars

(***************************************************************************)
(* The functions, each applied to inputs drawn from a bounded set.  Every  *)
(* specification below starts in a state of the walk in which its         *)
(* function is about to be applied.                                        *)
(***************************************************************************)

\* the state select_directory("d1") leaves on the filesystem f, with the
\* worker of the first folder being th
Loaded(f, th) ==
    /\ fs = f
    /\ directory = "d1"
    /\ folders = Subfolders("d1")
    /\ folder_paths = [n \in {folders[i] : i \in 1..Len(folders)}
                         |-> Join("d1", n)]
    /\ folder_candidates = EmptyDict
    /\ selected_candidates = EmptyDict
    /\ current_index = 0
    /\ current_candidates = <<>>
    /\ skip_btn = "normal"
    /\ folder_label = Label("Folder: ", Some(folders[1]))
    /\ frame = EmptyFrame
    /\ dialog = ""
    /\ threads = SetToBag({th})
    /\ pending = 0
    /\ started = 1
    /\ visited = <<folders[1]>>
    /\ renameCalls = [i \in 1..Len(folders) |-> 0]
    /\ renameDone = [i \in 1..Len(folders) |-> 0]
    /\ cc_owner = Null
    /\ shown_owner = Null
    /\ step_result = Null

\* ---- lines 171-176: the sort and the truncation --------------------------

\* the longest list a search returns here (the request asks for 10 a page)
MaxResults == 6

\* records of the years 2, 2, none and 1, and one whose startDate is null
S1 == Anime(1, Title(Some(<<"a">>), Some(<<"b">>)), StartDate(Some(2)))
S2 == Anime(2, Title(Some(<<"a">>), Some(<<"b">>)), StartDate(Some(2)))
S3 == Anime(3, Title(Some(<<"a">>), Some(<<"b">>)), StartDate(Null))
S4 == Anime(4, Title(Some(<<"a">>), Some(<<"b">>)), StartDate(Some(1)))

SearchResults ==
    UNION {[1..n -> {S1, S2, S3, S4, A4}] : n \in 0..MaxResults}

\* search_anime has returned `found` to the worker of folder "b" (line 169)
SortInit ==
    \E found \in SearchResults :
        Loaded(InitFS, Thread(<<"b">>, "171", found, FALSE))

\* lines 171-173 on the list the thread holds
fetch_sort(t) ==
    /\ t.pc = "171"
    /\ LET done == PostProcess(t.candidates) IN
        IF done.raised
        THEN /\ threads' = threads (-) SetToBag({t})
             /\ UNCHANGED step_result
        ELSE /\ threads' = Replace(threads, t,
                                   Thread(t.folder, "174", done.list, t.stale))
             /\ step_result' = Some(done.list)
    /\ UNCHANGED <<program, widgets, dialog, fs, pending, started, visited,
                   renameCalls, renameDone, cc_owner, shown_owner>>

fetch_candidates_171 == \E t \in BagToSet(threads) : fetch_sort(t)

SortNext ==
    \/ fetch_candidates_171
    \/ fetch_candidates_174
    \/ fetch_candidates_175
    \/ fetch_candidates_176
    \/ show_candidates

SortSpec == SortInit /\ [][SortNext]_vars

\* ---- lines 160-168: the query ---------------------------------------------

\* the longest folder name and the characters names are made of
MaxNameLen == 4
NameChars == {"a", " ", "(", ")", "[", "]"}
FolderNames == UNION {[1..n -> NameChars] : n \in 1..MaxNameLen}

\* what the override entry may hold
Overrides == {<<>>, <<" ">>, <<"q">>}

\* the position of the first character of s that ends a span, 0 if none
RECURSIVE FirstCloser(_, _)
FirstCloser(s, i) == IF i > Len(s) THEN 0
                     ELSE IF s[i] \in {")", "]"} THEN i
                     ELSE FirstCloser(s, i + 1)

\* where the pattern [\(\[].*?[\)\]] ends when matched at the head of s, 0 if
\* it does not match there: the shortest run of characters other than a
\* newline from an opening character to a closing one
MatchEnd(s) ==
    IF s = <<>> \/ Head(s) \notin {"(", "["} THEN 0
    ELSE LET k == FirstCloser(s, 2)
         IN IF k = 0 \/ \E j \in 2..(k - 1) : s[j] = "\n" THEN 0 ELSE k

\* re.sub(r"[\(\[].*?[\)\]]", "", s): the matches found from left to right,
\* each removed
RECURSIVE re_sub(_)
re_sub(s) == IF s = <<>> THEN <<>>
             ELSE IF MatchEnd(s) > 0
                  THEN re_sub(SubSeq(s, MatchEnd(s) + 1, Len(s)))
                  ELSE <<Head(s)>> \o re_sub(Tail(s))

\* lines 160-167
Query(folder_name, disregard, override_text) ==
    LET override_query == Strip(override_text)
    IN IF TruthyStr(Some(override_query)) THEN override_query
       ELSE IF disregard THEN Strip(re_sub(folder_name))
       ELSE folder_name

\* a worker that is about to read the checkbox and the override entry; what
\* the two widgets hold is kept with the thread that reads them
Reader(name, disregard, override_text) ==
    [folder |-> name, pc |-> "160", disregard_brackets_var |-> disregard,
     override_search_entry |-> override_text]

\* a worker that is about to call search_anime(query)
Searcher(name, q) == [folder |-> name, pc |-> "169", query |-> q]

\* directory d1 with the one folder `name`
OneFolder(name) ==
    [d \in Dirs |-> IF d = "d1" THEN {Entry(name, TRUE, 1)} ELSE {}]

QueryInit ==
    \E name \in FolderNames, disregard \in BOOLEAN, text \in Overrides :
        Loaded(OneFolder(name), Reader(name, disregard, text))

fetch_query(t) ==
    /\ t.pc = "160"
    /\ threads' = Replace(threads, t,
                          Searcher(t.folder,
                                   Query(t.folder, t.disregard_brackets_var,
                                         t.override_search_entry)))
    /\ UNCHANGED <<program, widgets, dialog, fs, pending, started, history,
                   cc_owner, shown_owner>>

fetch_candidates_160 == \E t \in BagToSet(threads) : fetch_query(t)

QueryNext == fetch_candidates_160

QuerySpec == QueryInit /\ [][QueryNext]_vars

\* ---- lines 228-241 and 39-44: the new name --------------------------------

\* the longest title and the characters titles are made of
MaxTitleLen == 2
TitleChars == {"a", " ", "<", ">", ":", "\"", "/", "\\", "|", "?", "*"}
Titles == UNION {[1..n -> TitleChars] : n \in 0..MaxTitleLen}

\* records with or without an English title, a romaji title and a year
NamedCandidates ==
    {Anime(1, Title(e, r), StartDate(y)) :
        e \in {Null} \cup {Some(t) : t \in Titles},
        r \in {Null, Some(<<"b">>), Some(<<"b", " ">>)},
        y \in {Null, Some(1)}}

\* the search for folder "b" has returned the one record c (line 169)
NameInit ==
    \E c \in NamedCandidates :
        Loaded(InitFS, Thread(<<"b">>, "171", <<c>>, FALSE))

NameNext ==
    \/ fetch_candidates_171
    \/ fetch_candidates_174
    \/ fetch_candidates_175
    \/ fetch_candidates_176
    \/ show_candidates
    \/ \E index \in 0..(TopN - 1) : candidate_selected(index)
    \/ dismiss_dialog

NameSpec == NameInit /\ [][NameNext]_vars

\* a folder is current
Walking == current_index < Len(folders)

\* C11 as stated: while a folder is current the skip button is enabled, and
\* under weak fairness of skip the index reaches the end of the list.
C11_SkipReachesDone ==
    /\ [](Walking => skip_btn = "normal")
    /\ Walking ~> ~Walking

\* C11, amended: while a folder is current the skip button is enabled, and
\* if Skip Folder is clicked whenever it is clickable again and again
\* (strong fairness: an open error dialog makes it unclickable until it is
\* closed), the index reaches the end of the list.
C11_SkipReachesDoneIfClicked ==
    /\ [](Walking => skip_btn = "normal")
    /\ SF_vars(skip_folder) => (Walking ~> ~Walking)

\* the walk has ended although os.rename raised for one of its folders
C11_Witness ==
    /\ folders # <<>>
    /\ current_index = Len(folders)
    /\ skip_btn = "disabled"
    /\ \E i \in DOMAIN renameCalls : renameCalls[i] > renameDone[i]

\* the list stored for the current folder (empty when none is stored)
StoredCandidates ==
    IF Walking THEN Get(folder_candidates, folders[current_index + 1], <<>>)
    ELSE <<>>

\* C12: a pick whose index is not below the length of the list stored for the
\* current folder shows the "could not determine new name" error, renames
\* nothing and leaves the index where it is.
C12_NoCandidateIsSurfaced ==
    [][\A index \in 0..(TopN - 1) :
        (candidate_selected(index) /\ Walking
         /\ index >= Len(StoredCandidates))
        => /\ dialog' = "Error: could not determine new name"
           /\ fs' = fs
           /\ renameCalls' = renameCalls
           /\ current_index' = current_index
           /\ visited' = visited]_vars

\* the error is on screen for a pick beyond the stored list
C12_Witness ==
    /\ Walking
    /\ dialog = "Error: could not determine new name"
    /\ folders[current_index + 1] \in DOMAIN selected_candidates
    /\ Val(selected_candidates[folders[current_index + 1]])
           >= Len(StoredCandidates)

\* the year a record sorts by: 0 when it has none
YearOrZero(anime) ==
    IF Val(anime.startDate).year = Null THEN 0
    ELSE Val(Val(anime.startDate).year)

\* the place of input[i] in the sorted list: behind every record of a later
\* year and behind the records of its own year that precede it in the input
PlaceOf(input, i) ==
    1 + Cardinality({j \in 1..Len(input) :
                        \/ YearOrZero(input[j]) > YearOrZero(input[i])
                        \/ (YearOrZero(input[j]) = YearOrZero(input[i]) /\ j < i)})

\* output is input sorted by year descending, stable, cut to five
SortedAndCut(input, output) ==
    /\ Len(output) = Min(Len(input), 5)
    /\ \A i \in 1..Len(input) :
          PlaceOf(input, i) <= 5 => output[PlaceOf(input, i)] = input[i]

\* C13: the list that lines 171-173 hand on is the input sorted by year
\* descending (no year as 0), equal years in input order, cut to the first 5.
C13_SortedStableTop5 ==
    [][\A t \in BagToSet(threads) :
          (fetch_sort(t) /\ threads' # EmptyBag)
          => \E u \in BagToSet(threads') :
                /\ u.pc = "174"
                /\ SortedAndCut(t.candidates, u.candidates)]_vars

\* the controller holds a list that was cut to five, with equal years in it
\* and a record without year last
C13_Witness ==
    /\ Len(current_candidates) = 5
    /\ \E i \in 1..4 : /\ current_candidates[i] = S2
                       /\ current_candidates[i + 1] = S1
    /\ current_candidates[5] = S3

\* every closing character of s closes the last span still open, of its own
\* kind, and no span stays open
RECURSIVE Balanced(_, _)
Balanced(s, open) ==
    IF s = <<>> THEN open = <<>>
    ELSE IF Head(s) \in {"(", "["} THEN Balanced(Tail(s), <<Head(s)>> \o open)
    ELSE IF Head(s) \in {")", "]"}
         THEN /\ open # <<>>
              /\ Head(open) = (IF Head(s) = ")" THEN "(" ELSE "[")
              /\ Balanced(Tail(s), Tail(open))
    ELSE Balanced(Tail(s), open)

\* the characters of a balanced s that lie in no span
RECURSIVE OutsideSpans(_, _)
OutsideSpans(s, depth) ==
    IF s = <<>> THEN <<>>
    ELSE IF Head(s) \in {"(", "["} THEN OutsideSpans(Tail(s), depth + 1)
    ELSE IF Head(s) \in {")", "]"} THEN OutsideSpans(Tail(s), depth - 1)
    ELSE (IF depth = 0 THEN <<Head(s)>> ELSE <<>>)
         \o OutsideSpans(Tail(s), depth)

\* C14: with an empty override the query of a balanced folder name is, with
\* the strip option, the name without its spans, trimmed; without the option
\* it is the name.
C14_QueryWithoutSpans ==
    [][\A t \in BagToSet(threads) :
          (fetch_query(t) /\ Strip(t.override_search_entry) = <<>>
           /\ Balanced(t.folder, <<>>))
          => \A u \in BagToSet(threads') :
                u.query = IF t.disregard_brackets_var
                          THEN Strip(OutsideSpans(t.folder, 0))
                          ELSE t.folder]_vars

\* a is b with some of its characters left out
RECURSIVE IsSubsequence(_, _)
IsSubsequence(a, b) ==
    IF a = <<>> THEN TRUE
    ELSE IF b = <<>> THEN FALSE
    ELSE IF Head(a) = Head(b) THEN IsSubsequence(Tail(a), Tail(b))
    ELSE IsSubsequence(a, Tail(b))

\* the text get_new_name sanitizes for the first stored candidate
TextToSanitize == Val(DisplayText(StoredCandidates[1]).text)

\* the name of the first folder of d1 on the filesystem f
FirstFolderName(f) == (CHOOSE e \in f["d1"] : e.id = 1).name

\* C15: the name a pick gives the folder, which is sanitize_filename of the
\* text built for the candidate, holds none of < > : " / \ | ? *, is a
\* subsequence of that text, neither starts nor ends with whitespace, and
\* sanitizing it again changes nothing.
C15_SanitizedName ==
    [][(candidate_selected(0) /\ renameDone' # renameDone)
       => LET text == TextToSanitize
              name == FirstFolderName(fs')
          IN /\ \A i \in 1..Len(name) :
                   name[i] \notin {"<", ">", ":", "\"", "/", "\\", "|", "?", "*"}
             /\ IsSubsequence(name, text)
             /\ name # <<>>
                => (name[1] \notin Whitespace /\ name[Len(name)] \notin Whitespace)
             /\ sanitize_filename(name) = name]_vars

\* a folder was renamed from a text that starts with whitespace and holds an
\* invalid character
C15_Witness ==
    /\ renameDone = <<1, 0>>
    /\ LET text == Val(DisplayText(folder_candidates[<<"b">>][1]).text)
       IN /\ text[1] = " "
          /\ \E i \in 1..Len(text) : text[i] = "?"
          /\ FirstFolderName(fs) # text

\* the record has an English title that is not empty, or a romaji title
HasTitle(anime) ==
    LET t == Val(anime.title)
    IN (t.english # Null /\ Val(t.english) # <<>>) \/ t.romaji # Null

\* the English title if it is not empty, else the romaji title
ChosenTitle(anime) ==
    LET t == Val(anime.title)
    IN IF t.english # Null /\ Val(t.english) # <<>> THEN Val(t.english)
       ELSE Val(t.romaji)

\* " (Year)" for a record with a year, nothing for one without
YearSuffix(anime) ==
    LET y == Val(anime.startDate).year
    IN IF y = Null THEN <<>> ELSE <<" ", "(">> \o IntText(Val(y)) \o <<")">>

\* C16 as stated: the new name is the sanitized title, followed by " (Year)"
\* exactly when the record has a year.
C16_SanitizedTitleThenYear ==
    [][(candidate_selected(0) /\ renameDone' # renameDone
        /\ HasTitle(StoredCandidates[1]))
       => FirstFolderName(fs')
            = sanitize_filename(ChosenTitle(StoredCandidates[1]))
              \o YearSuffix(StoredCandidates[1])]_vars

\* C16, amended: the new name is the sanitized form of the whole text, the
\* title followed by " (Year)" exactly when the record has a year.
C16_SanitizedTitleAndYear ==
    [][(candidate_selected(0) /\ renameDone' # renameDone
        /\ HasTitle(StoredCandidates[1]))
       => FirstFolderName(fs')
            = sanitize_filename(ChosenTitle(StoredCandidates[1])
                                \o YearSuffix(StoredCandidates[1]))]_vars

\* the folder got the romaji title and the year of a record whose English
\* title is empty
C16_Witness ==
    /\ renameDone = <<1, 0>>
    /\ Val(folder_candidates[<<"b">>][1].title).english = Some(<<>>)
    /\ FirstFolderName(fs) = <<"b", " ", "(", "1", ")">>

\* C17: a worker ends only by posting its completion: no search ends, on
\* whatever response, without show_candidates being scheduled.
C17_WorkerAlwaysPosts ==
    [][BagCardinality(threads') < BagCardinality(threads)
       => pending' = pending + 1]_vars

\* C18: while pick buttons are on screen for a current folder, the displayed
\* list is the list stored for that folder.
C18_ShownIsStored ==
    (Walking /\ frame.buttons # <<>>) => current_candidates = StoredCandidates

\* between f and g exactly the entry `name` of directory d got another name,
\* one that no entry of d had
OneEntryRenamed(f, g, d, name) ==
    \E e \in f[d] :
        /\ e.name = name
        /\ \E new \in {o.name : o \in g[d]} \ {o.name : o \in f[d]} :
              g = [f EXCEPT ![d] = (@ \ {e}) \cup {[e EXCEPT !.name = new]}]

\* C19: a pick that renames changes exactly the entry of the current folder
\* in the chosen directory, giving it a name that was free there; every
\* other step (skip, failed pick, the steps of a search, its display, a
\* directory choice, a closed dialog) leaves the filesystem as it is.
C19_OnlyOneEntryChanges ==
    [][LET picked == \E index \in 0..(TopN - 1) : candidate_selected(index)
       IN /\ (picked /\ current_index' # current_index)
             => OneEntryRenamed(fs, fs', directory, folders[current_index + 1])
          /\ (picked /\ current_index' = current_index) => fs' = fs
          /\ skip_folder => fs' = fs
          /\ (fetch_candidates_search \/ fetch_candidates_174
              \/ fetch_candidates_175 \/ fetch_candidates_176
              \/ show_candidates \/ show_candidates_during_174) => fs' = fs
          /\ ~picked => fs' = fs]_vars

\* the first folder of d1 has been renamed and the second has not
C19_Witness ==
    /\ renameDone = <<1, 0>>
    /\ current_index = 1
    /\ [name |-> <<"x">>, isdir |-> TRUE, id |-> 2] \in fs["d1"]
    /\ [name |-> <<"a", " ", "(", "1", ")">>, isdir |-> TRUE, id |-> 1] \in fs["d1"]
====
